---------------------------- MODULE Spec2Model ----------------------------
(***************************************************************************)
(* State-machine model of the ProjectLaunch escrow contract                *)
(* (contracts/project-launch/src/lib.rs).                                  *)
(*                                                                         *)
(* Every public entry point is one action.  An entry point is first        *)
(* computed as a pure operator over the contract store (instance and       *)
(* persistent storage plus the token balances), statement by statement in  *)
(* the order of the source, and yields the store after the call together   *)
(* with the call's result.  An Err return leaves the store as it stands at *)
(* the return statement; a trap (a failed require_auth, a failed token     *)
(* transfer) makes the host discard the writes the call made before it.    *)
(* Events are published and never read back: they are not state.           *)
(***************************************************************************)
EXTENDS Integers, FiniteSets, Sequences, TLC

(***************************************************************************)
(* Bounds of the model.                                                    *)
(***************************************************************************)
MaxProjects == 2
MaxTime == 3
\* what each contributor is minted of each token before the first call
MintAmount == 2

(***************************************************************************)
(* shared::constants, scaled down.                                         *)
(***************************************************************************)
MIN_FUNDING_GOAL == 4
MIN_CONTRIBUTION == 1
MIN_PROJECT_DURATION == 2
MAX_PROJECT_DURATION == 3

(***************************************************************************)
(* Addresses, tokens and the inputs the calls are drawn from.              *)
(***************************************************************************)
Contributors == {"c1", "c2"}
Creators == {"creator"}
Admins == {"admin"}
Escrow == "contract"
Accounts == Contributors \cup {Escrow}
Tokens == {"tA", "tB"}
NoAddress == "none"

ProjectIds == 0 .. (MaxProjects - 1)
Goals == (MIN_FUNDING_GOAL - 1) .. MIN_FUNDING_GOAL
Amounts == (MIN_CONTRIBUTION - 1) .. MIN_CONTRIBUTION
\* deadlines a creator may pass at time t: from the past to beyond the window
Deadlines(t) == {d \in (t - 1) .. (t + MAX_PROJECT_DURATION + 1) : d >= 0}

\* ProjectStatus
Active == "Active"
Completed == "Completed"
Failed == "Failed"
Cancelled == "Cancelled"
ProjectStatus == {Active, Completed, Failed, Cancelled}

\* the token ledgers before any call: every contributor holds MintAmount of
\* every token and the contract holds nothing
InitialBalance(token, account) ==
    IF account = Escrow THEN 0 ELSE MintAmount

\* absent (DataKey::Project, id) entry
NoProject == [status |-> "absent"]

VARIABLES
    admin,              \* DataKey::Admin (NoAddress when absent)
    next_project_id,    \* DataKey::NextProjectId (read with unwrap_or(0))
    projects,           \* (DataKey::Project, id) -> Project or NoProject
    contribution,       \* (DataKey::ContributionAmount, id, contributor) -> i128
    refund_processed,   \* set of (id, contributor) with DataKey::RefundProcessed
    failure_processed,  \* set of ids with DataKey::ProjectFailureProcessed
    balance,            \* token -> account -> amount held
    now,                \* env.ledger().timestamp()
    refunds_ok,         \* history: successful refund_contributor calls per pair
                        \*   (0, 1, or 2 for two and more)
    settles_ok,         \* history: successful mark_project_failed calls per id
                        \*   (0, 1, or 2 for two and more)
    creations,          \* history: successful create_project calls
    contributed         \* history: per pair, the sum of the amounts of the
                        \*   successful contribute calls

vars == <<admin, next_project_id, projects, contribution, refund_processed,
          failure_processed, balance, now, refunds_ok, settles_ok, creations,
          contributed>>

\* the contract store and the token ledgers a call reads and writes
Store == [admin |-> admin,
          next_project_id |-> next_project_id,
          projects |-> projects,
          contribution |-> contribution,
          refund_processed |-> refund_processed,
          failure_processed |-> failure_processed,
          balance |-> balance]

Ok == "Ok"
\* outcome of a call: the store it leaves, its result code and returned value
Outcome(s, res, val) == [store |-> s, res |-> res, val |-> val]

(***************************************************************************)
(* Collaborators.                                                          *)
(***************************************************************************)
\* shared::utils::verify_future_timestamp: the timestamp lies strictly ahead
verify_future_timestamp(t, deadline) == deadline > t

\* u64::saturating_sub
saturating_sub(a, b) == IF a >= b THEN a - b ELSE 0

\* TokenClient::transfer: moves amount from one account to another.  It
\* fails when the token refuses the transfer (token_ok = FALSE: a frozen or
\* deauthorized account, a token that rejects) or the sender holds too little.
TokenTransfer(bal, token, from, to, amount, token_ok) ==
    IF token_ok /\ bal[token][from] >= amount
    THEN [ok |-> TRUE,
          bal |-> [bal EXCEPT ![token][from] = @ - amount,
                              ![token][to] = @ + amount]]
    ELSE [ok |-> FALSE, bal |-> bal]

\* variant: a failed call keeps the writes made before the failure
Trap_keeps_writes(pre, written, code) == Outcome(written, code, 0)

\* A trap inside a call (a failed require_auth or token transfer panics):
\* the host discards every write the call made, so the store is the one
\* the call started from, not the one written so far.
Trap(pre, written, code) == Outcome(pre, code, 0)

(***************************************************************************)
(* ProjectLaunch::initialize                                               *)
(***************************************************************************)
initialize(s, new_admin, auth) ==
    IF s.admin # NoAddress
    THEN Outcome(s, "AlreadyInitialized", 0)
    ELSE IF ~auth
    THEN Trap(s, s, "AuthError")
    ELSE Outcome([s EXCEPT !.admin = new_admin, !.next_project_id = 0], Ok, 0)

(***************************************************************************)
(* i128 arithmetic, at a reduced width.  checked_add is None when the sum  *)
(* leaves the range; the += operator panics on overflow in a build with    *)
(* overflow checks (add_assign is then None) and wraps around in a build   *)
(* without them.                                                           *)
(***************************************************************************)
I128_BITS == 4
I128_MAX == 2 ^ (I128_BITS - 1) - 1
I128_MIN == 0 - 2 ^ (I128_BITS - 1)

\* Option<i128>: the empty set is None, {v} is Some(v)
None == {}
Some(v) == {v}
unwrap(option) == CHOOSE v \in option : TRUE

checked_add(a, b) ==
    IF a + b > I128_MAX \/ a + b < I128_MIN THEN None ELSE Some(a + b)

wrapping_add(a, b) ==
    ((a + b - I128_MIN) % (2 ^ I128_BITS)) + I128_MIN

add_assign(a, b, overflow_checks) ==
    IF overflow_checks THEN checked_add(a, b) ELSE Some(wrapping_add(a, b))

(***************************************************************************)
(* The duration test of create_project.                                    *)
(***************************************************************************)
\* variant: the minimum duration is not enforced
DurationOutOfWindow_no_minimum(duration) ==
    duration > MAX_PROJECT_DURATION

\* variant: a duration equal to the maximum is refused
DurationOutOfWindow_half_open(duration) ==
    duration < MIN_PROJECT_DURATION \/ duration >= MAX_PROJECT_DURATION

DurationOutOfWindow(duration) ==
    duration < MIN_PROJECT_DURATION \/ duration > MAX_PROJECT_DURATION

(***************************************************************************)
(* ProjectLaunch::create_project                                           *)
(***************************************************************************)
\* variant: the id is taken from the counter before the deadline is validated
create_project_id_first(s, t, creator, funding_goal, deadline, token) ==
    IF funding_goal < MIN_FUNDING_GOAL
    THEN Outcome(s, "InvalidFundingGoal", 0)
    ELSE
    LET current_time == t
        duration == saturating_sub(deadline, current_time)
        project_id == s.next_project_id
        s1 == [s EXCEPT !.next_project_id = project_id + 1]
    IN
    IF DurationOutOfWindow(duration)
    THEN Outcome(s1, "InvalidDeadline", 0)
    ELSE IF ~verify_future_timestamp(t, deadline)
    THEN Outcome(s1, "InvalidDeadline", 0)
    ELSE
    LET project == [creator |-> creator,
                    funding_goal |-> funding_goal,
                    deadline |-> deadline,
                    token |-> token,
                    status |-> Active,
                    metadata_hash |-> "hash",
                    total_raised |-> 0,
                    created_at |-> current_time]
        s2 == [s1 EXCEPT !.projects[project_id] = project]
    IN Outcome(s2, Ok, project_id)

create_project(s, t, creator, funding_goal, deadline, token) ==
    IF funding_goal < MIN_FUNDING_GOAL
    THEN Outcome(s, "InvalidFundingGoal", 0)
    ELSE
    LET current_time == t
        duration == saturating_sub(deadline, current_time)
    IN
    IF DurationOutOfWindow(duration)
    THEN Outcome(s, "InvalidDeadline", 0)
    ELSE IF ~verify_future_timestamp(t, deadline)
    THEN Outcome(s, "InvalidDeadline", 0)
    ELSE
    LET project_id == s.next_project_id
        next_id == project_id + 1
        s1 == [s EXCEPT !.next_project_id = next_id]
        project == [creator |-> creator,
                    funding_goal |-> funding_goal,
                    deadline |-> deadline,
                    token |-> token,
                    status |-> Active,
                    metadata_hash |-> "hash",
                    total_raised |-> 0,
                    created_at |-> current_time]
        s2 == [s1 EXCEPT !.projects[project_id] = project]
    IN Outcome(s2, Ok, project_id)

(***************************************************************************)
(* ProjectLaunch::contribute                                               *)
(***************************************************************************)
\* variant: the deadline instant itself still accepts contributions
ContributionWindow_inclusive(project, t) ==
    IF project.status # Active THEN "ProjectNotActive"
    ELSE IF t > project.deadline THEN "DeadlinePassed"
    ELSE Ok

\* variant: a project that has reached its goal takes no more contributions
ContributionWindow_goal_capped(project, t) ==
    IF project.status # Active THEN "ProjectNotActive"
    ELSE IF t >= project.deadline THEN "DeadlinePassed"
    ELSE IF project.total_raised >= project.funding_goal THEN "ProjectNotActive"
    ELSE Ok

\* the status and deadline validation of a contribution
ContributionWindow(project, t) ==
    IF project.status # Active THEN "ProjectNotActive"
    ELSE IF t >= project.deadline THEN "DeadlinePassed"
    ELSE Ok

contribute(s, t, project_id, contributor, amount, auth, token_ok, overflow_checks) ==
    IF amount < MIN_CONTRIBUTION
    THEN Outcome(s, "ContributionTooLow", 0)
    ELSE IF ~auth
    THEN Trap(s, s, "AuthError")
    ELSE IF s.projects[project_id] = NoProject
    THEN Outcome(s, "ProjectNotFound", 0)
    ELSE
    LET project == s.projects[project_id] IN
    IF ContributionWindow(project, t) # Ok
    THEN Outcome(s, ContributionWindow(project, t), 0)
    ELSE
    LET new_total == add_assign(project.total_raised, amount, overflow_checks) IN
    IF new_total = None
    THEN Trap(s, s, "Panic")
    ELSE
    LET project1 == [project EXCEPT !.total_raised = unwrap(new_total)]
        s1 == [s EXCEPT !.projects[project_id] = project1]
        xfer == TokenTransfer(s1.balance, project1.token, contributor, Escrow,
                              amount, token_ok)
    IN
    IF ~xfer.ok
    THEN Trap(s, s1, "TransferError")
    ELSE
    LET s2 == [s1 EXCEPT !.balance = xfer.bal]
        current_contribution == s2.contribution[project_id][contributor]
        new_contribution == checked_add(current_contribution, amount)
    IN
    IF new_contribution = None
    THEN Trap(s, s2, "Panic")
    ELSE
    LET s3 == [s2 EXCEPT !.contribution[project_id][contributor] = unwrap(new_contribution)]
    IN Outcome(s3, Ok, 0)

\* ProjectLaunch::get_user_contribution
get_user_contribution(s, project_id, contributor) ==
    s.contribution[project_id][contributor]

(***************************************************************************)
(* ProjectLaunch::mark_project_failed (the spec's settle)                  *)
(***************************************************************************)
\* variant: a project that raised exactly its goal counts as failed
SettlementStatus_strict(project) ==
    IF project.total_raised > project.funding_goal THEN Completed ELSE Failed

\* the settlement decision: the goal was met or it was not
SettlementStatus(project) ==
    IF project.total_raised >= project.funding_goal THEN Completed ELSE Failed

\* variant: a project can be settled at the instant of its deadline
DeadlineNotPassed_exclusive(project, current_time) ==
    current_time < project.deadline

\* the deadline test of mark_project_failed
DeadlineNotPassed(project, current_time) ==
    current_time <= project.deadline

\* variant: a project that met its goal is paid out to its creator on settling
mark_project_failed_pays_out(s, t, project_id) ==
    IF s.projects[project_id] = NoProject
    THEN Outcome(s, "ProjectNotFound", 0)
    ELSE
    LET project == s.projects[project_id] IN
    IF DeadlineNotPassed(project, t)
    THEN Outcome(s, "InvalidInput", 0)
    ELSE IF project.status = Failed \/ project.status = Completed
    THEN Outcome(s, "InvalidProjectStatus", 0)
    ELSE IF project_id \in s.failure_processed
    THEN Outcome(s, "InvalidProjectStatus", 0)
    ELSE
    LET project1 == [project EXCEPT !.status = SettlementStatus(project)]
        s1 == [s EXCEPT !.projects[project_id] = project1]
        s2 == [s1 EXCEPT !.failure_processed = @ \cup {project_id}]
        xfer == TokenTransfer(s2.balance, project.token, Escrow, project.creator,
                              project.total_raised, TRUE)
    IN
    IF project1.status = Completed /\ xfer.ok
    THEN Outcome([s2 EXCEPT !.balance = xfer.bal], Ok, 0)
    ELSE Outcome(s2, Ok, 0)

mark_project_failed(s, t, project_id) ==
    IF s.projects[project_id] = NoProject
    THEN Outcome(s, "ProjectNotFound", 0)
    ELSE
    LET project == s.projects[project_id] IN
    IF DeadlineNotPassed(project, t)
    THEN Outcome(s, "InvalidInput", 0)
    ELSE IF project.status = Failed \/ project.status = Completed
    THEN Outcome(s, "InvalidProjectStatus", 0)
    ELSE IF project_id \in s.failure_processed
    THEN Outcome(s, "InvalidProjectStatus", 0)
    ELSE
    LET project1 == [project EXCEPT !.status = SettlementStatus(project)]
        s1 == [s EXCEPT !.projects[project_id] = project1]
        s2 == [s1 EXCEPT !.failure_processed = @ \cup {project_id}]
    IN Outcome(s2, Ok, 0)

(***************************************************************************)
(* ProjectLaunch::refund_contributor (the spec's refund)                   *)
(***************************************************************************)
\* variant: the refund pays out what the whole project raised
RefundAmount_total(s, project_id, contributor) ==
    s.projects[project_id].total_raised

\* the amount a refund pays: the recorded cumulative contribution
RefundAmount(s, project_id, contributor) ==
    s.contribution[project_id][contributor]

\* variant: the refund is paid and the marker is not written
MarkRefunded_forgotten(s, refund_key) == s

\* variant: marking the refund also clears the recorded contribution
MarkRefunded_clears_contribution(s, refund_key) ==
    [s EXCEPT !.refund_processed = @ \cup {refund_key},
              !.contribution[refund_key[1]][refund_key[2]] = 0]

\* the refund is marked as processed
MarkRefunded(s, refund_key) ==
    [s EXCEPT !.refund_processed = @ \cup {refund_key}]

\* variant: the marker is written before the transfer and a failed transfer
\* is returned as an error instead of trapping
refund_contributor_marks_first(s, project_id, contributor, token_ok) ==
    IF s.projects[project_id] = NoProject
    THEN Outcome(s, "ProjectNotFound", 0)
    ELSE
    LET project == s.projects[project_id] IN
    IF project.status # Failed
    THEN Outcome(s, "ProjectNotActive", 0)
    ELSE
    LET refund_key == <<project_id, contributor>> IN
    IF refund_key \in s.refund_processed
    THEN Outcome(s, "InvalidInput", 0)
    ELSE
    LET contribution_amount == s.contribution[project_id][contributor] IN
    IF contribution_amount <= 0
    THEN Outcome(s, "InvalidInput", 0)
    ELSE
    LET s1 == [s EXCEPT !.refund_processed = @ \cup {refund_key}]
        xfer == TokenTransfer(s1.balance, project.token, Escrow, contributor,
                              contribution_amount, token_ok)
    IN
    IF ~xfer.ok
    THEN Outcome(s1, "TransferError", 0)
    ELSE Outcome([s1 EXCEPT !.balance = xfer.bal], Ok, contribution_amount)

refund_contributor(s, project_id, contributor, token_ok) ==
    IF s.projects[project_id] = NoProject
    THEN Outcome(s, "ProjectNotFound", 0)
    ELSE
    LET project == s.projects[project_id] IN
    IF project.status # Failed
    THEN Outcome(s, "ProjectNotActive", 0)
    ELSE
    LET refund_key == <<project_id, contributor>> IN
    IF refund_key \in s.refund_processed
    THEN Outcome(s, "InvalidInput", 0)
    ELSE
    LET contribution_amount == RefundAmount(s, project_id, contributor) IN
    IF contribution_amount <= 0
    THEN Outcome(s, "InvalidInput", 0)
    ELSE
    LET xfer == TokenTransfer(s.balance, project.token, Escrow, contributor,
                              contribution_amount, token_ok)
    IN
    IF ~xfer.ok
    THEN Trap(s, s, "TransferError")
    ELSE
    LET s1 == [s EXCEPT !.balance = xfer.bal]
        s2 == MarkRefunded(s1, refund_key)
    IN Outcome(s2, Ok, contribution_amount)

\* refund_contributor when the token contract, while it executes the transfer
\* of lines 321-326, calls refund_contributor again for the same pair and the
\* call is let in: the inner call runs on the store of that moment (funds
\* moved, RefundProcessed not yet written); when it fails the token carries
\* on, and the outer call then writes the marker and returns.
refund_contributor_reentered(s, project_id, contributor, token_ok) ==
    IF s.projects[project_id] = NoProject
    THEN Outcome(s, "ProjectNotFound", 0)
    ELSE
    LET project == s.projects[project_id] IN
    IF project.status # Failed
    THEN Outcome(s, "ProjectNotActive", 0)
    ELSE
    LET refund_key == <<project_id, contributor>> IN
    IF refund_key \in s.refund_processed
    THEN Outcome(s, "InvalidInput", 0)
    ELSE
    LET contribution_amount == RefundAmount(s, project_id, contributor) IN
    IF contribution_amount <= 0
    THEN Outcome(s, "InvalidInput", 0)
    ELSE
    LET xfer == TokenTransfer(s.balance, project.token, Escrow, contributor,
                              contribution_amount, token_ok)
    IN
    IF ~xfer.ok
    THEN Trap(s, s, "TransferError")
    ELSE
    LET s1 == [s EXCEPT !.balance = xfer.bal]
        inner == refund_contributor(s1, project_id, contributor, token_ok)
        s2 == IF inner.res = Ok THEN inner.store ELSE s1
        s3 == MarkRefunded(s2, refund_key)
    IN Outcome(s3, Ok, contribution_amount)

\* ProjectLaunch::is_refunded
is_refunded(s, project_id, contributor) ==
    <<project_id, contributor>> \in s.refund_processed

\* ProjectLaunch::is_failure_processed
is_failure_processed(s, project_id) == project_id \in s.failure_processed

(***************************************************************************)
(* The state machine.                                                      *)
(***************************************************************************)
\* the store a call leaves becomes the contract's store
Commit(out) ==
    /\ admin' = out.store.admin
    /\ next_project_id' = out.store.next_project_id
    /\ projects' = out.store.projects
    /\ contribution' = out.store.contribution
    /\ refund_processed' = out.store.refund_processed
    /\ failure_processed' = out.store.failure_processed
    /\ balance' = out.store.balance

\* the contract as deployed: empty storage, the token ledgers as minted
Init ==
    /\ admin = NoAddress
    /\ next_project_id = 0
    /\ projects = [i \in ProjectIds |-> NoProject]
    /\ contribution = [i \in ProjectIds |-> [c \in Contributors |-> 0]]
    /\ refund_processed = {}
    /\ failure_processed = {}
    /\ balance = [k \in Tokens |->
                    [a \in Accounts |-> InitialBalance(k, a)]]
    /\ now = 0
    /\ refunds_ok = [i \in ProjectIds |-> [c \in Contributors |-> 0]]
    /\ settles_ok = [i \in ProjectIds |-> 0]
    /\ creations = 0
    /\ contributed = [i \in ProjectIds |-> [c \in Contributors |-> 0]]

Initialize ==
    \E a \in Admins, auth \in BOOLEAN :
        LET out == initialize(Store, a, auth) IN
        /\ Commit(out)
        /\ UNCHANGED <<now, refunds_ok, settles_ok, creations, contributed>>

\* at most MaxProjects projects are created in a run
CreateProject ==
    \E creator \in Creators, goal \in Goals, deadline \in Deadlines(now), token \in Tokens :
        LET out == create_project(Store, now, creator, goal, deadline, token) IN
        /\ creations < MaxProjects
        /\ Commit(out)
        /\ creations' = IF out.res = Ok THEN creations + 1 ELSE creations
        /\ UNCHANGED <<now, refunds_ok, settles_ok, contributed>>

Contribute ==
    \E project_id \in ProjectIds, contributor \in Contributors, amount \in Amounts,
       auth \in BOOLEAN, token_ok \in BOOLEAN, overflow_checks \in BOOLEAN :
        LET out == contribute(Store, now, project_id, contributor, amount,
                              auth, token_ok, overflow_checks) IN
        /\ Commit(out)
        /\ contributed' = IF out.res = Ok
                          THEN [contributed EXCEPT ![project_id][contributor] = @ + amount]
                          ELSE contributed
        /\ UNCHANGED <<now, refunds_ok, settles_ok, creations>>

MarkProjectFailed ==
    \E project_id \in ProjectIds :
        LET out == mark_project_failed(Store, now, project_id) IN
        /\ Commit(out)
        /\ settles_ok' = IF out.res = Ok
                         THEN [settles_ok EXCEPT ![project_id] = IF @ < 2 THEN @ + 1 ELSE @]
                         ELSE settles_ok
        /\ UNCHANGED <<now, refunds_ok, creations, contributed>>

RefundContributor ==
    \E project_id \in ProjectIds, contributor \in Contributors, token_ok \in BOOLEAN :
        LET out == refund_contributor(Store, project_id, contributor, token_ok) IN
        /\ Commit(out)
        /\ refunds_ok' = IF out.res = Ok
                         THEN [refunds_ok EXCEPT ![project_id][contributor] =
                                                    IF @ < 2 THEN @ + 1 ELSE @]
                         ELSE refunds_ok
        /\ UNCHANGED <<now, settles_ok, creations, contributed>>

\* the ledger closes: the timestamp advances
AdvanceTime ==
    /\ now < MaxTime
    /\ now' = now + 1
    /\ UNCHANGED <<admin, next_project_id, projects, contribution, refund_processed,
                   failure_processed, balance, refunds_ok, settles_ok, creations,
                   contributed>>

Next ==
    \/ Initialize
    \/ CreateProject
    \/ Contribute
    \/ MarkProjectFailed
    \/ RefundContributor
    \/ AdvanceTime

Spec == Init /\ [][Next]_vars

(***************************************************************************)
(* The same contract with one rich contributor, who is minted enough of    *)
(* one token to fund a project past its goal and up to the end of the i128 *)
(* range.                                                                  *)
(***************************************************************************)
ExtraMint == 4

InitOverfunding ==
    /\ admin = NoAddress
    /\ next_project_id = 0
    /\ projects = [i \in ProjectIds |-> NoProject]
    /\ contribution = [i \in ProjectIds |-> [c \in Contributors |-> 0]]
    /\ refund_processed = {}
    /\ failure_processed = {}
    /\ balance = [k \in Tokens |->
                    [a \in Accounts |-> IF k = "tA" /\ a = "c1"
                                        THEN InitialBalance(k, a) + ExtraMint
                                        ELSE InitialBalance(k, a)]]
    /\ now = 0
    /\ refunds_ok = [i \in ProjectIds |-> [c \in Contributors |-> 0]]
    /\ settles_ok = [i \in ProjectIds |-> 0]
    /\ creations = 0
    /\ contributed = [i \in ProjectIds |-> [c \in Contributors |-> 0]]

SpecOverfunding == InitOverfunding /\ [][Next]_vars

(***************************************************************************)
(* Properties.                                                             *)
(***************************************************************************)
RECURSIVE SumContributions(_, _, _)
\* the recorded contributions to a project summed over a set of contributors
SumContributions(contrib, project_id, cs) ==
    IF cs = {} THEN 0
    ELSE LET c == CHOOSE x \in cs : TRUE
         IN contrib[project_id][c] + SumContributions(contrib, project_id, cs \ {c})

Stored(project_id) == projects[project_id] # NoProject

\* C1: in every reachable state each stored project's total_raised equals
\* the sum over all contributors of the recorded cumulative contribution
\* for (project_id, contributor).
C1_TotalEqualsSum ==
    \A p \in ProjectIds :
        Stored(p) =>
            projects[p].total_raised = SumContributions(contribution, p, Contributors)

\* C2: for every (project_id, contributor) refund_contributor succeeds at
\* most once; the RefundProcessed marker is set from the first success on
\* and never removed; with the marker set every refund_contributor call for
\* the pair returns an error and moves no tokens.
C2_RefundAtMostOnce ==
    \A p \in ProjectIds, c \in Contributors :
        /\ refunds_ok[p][c] <= 1
        /\ (refunds_ok[p][c] >= 1) <=> (<<p, c>> \in refund_processed)
        /\ <<p, c>> \in refund_processed =>
               \A token_ok \in BOOLEAN :
                   LET out == refund_contributor(Store, p, c, token_ok) IN
                   /\ out.res # Ok
                   /\ out.store = Store

\* a contributor was refunded and a second refund of the pair is refused
C2_Witness ==
    \E p \in ProjectIds, c \in Contributors :
        /\ refunds_ok[p][c] = 1
        /\ <<p, c>> \in refund_processed
        /\ refund_contributor(Store, p, c, TRUE).res = "InvalidInput"

\* C3: for every project mark_project_failed succeeds at most once; the
\* ProjectFailureProcessed marker is set from the first success on and never
\* removed; with the marker set every mark_project_failed call on the
\* project returns the conflict error InvalidProjectStatus and leaves the
\* project's status and total_raised unchanged.
C3_SettleAtMostOnce ==
    \A p \in ProjectIds :
        /\ settles_ok[p] <= 1
        /\ (settles_ok[p] >= 1) <=> (p \in failure_processed)
        /\ p \in failure_processed =>
               LET out == mark_project_failed(Store, now, p) IN
               /\ out.res = "InvalidProjectStatus"
               /\ out.store.projects[p] = projects[p]

\* C4: a project's status starts Active and changes at most once, only
\* Active -> Completed or Active -> Failed: no step moves a Completed or
\* Failed project to another status or back to Active, and no project is
\* ever Cancelled.
C4_StatusMonotone ==
    [][\A p \in ProjectIds :
          /\ (~Stored(p) /\ projects'[p] # NoProject) => projects'[p].status = Active
          /\ projects'[p].status # Cancelled
          /\ Stored(p) =>
                \/ projects'[p].status = projects[p].status
                \/ /\ projects[p].status = Active
                   /\ projects'[p].status \in {Completed, Failed}]_vars

\* C5: every successful contribute call is made on an Active project with
\* now < deadline, and every successful refund_contributor call on a Failed
\* project; refund fails for a project that is still Active after its
\* deadline (not settled) and for a Completed project.
C5_CallWindows ==
    \A p \in ProjectIds, c \in Contributors :
        /\ \A amount \in Amounts, auth \in BOOLEAN, token_ok \in BOOLEAN,
              overflow_checks \in BOOLEAN :
               contribute(Store, now, p, c, amount, auth, token_ok,
                          overflow_checks).res = Ok =>
                   /\ Stored(p)
                   /\ projects[p].status = Active
                   /\ now < projects[p].deadline
        /\ \A token_ok \in BOOLEAN :
               LET out == refund_contributor(Store, p, c, token_ok) IN
               /\ out.res = Ok => (Stored(p) /\ projects[p].status = Failed)
               /\ (Stored(p) /\ projects[p].status \in {Active, Completed}) =>
                      (out.res = "ProjectNotActive" /\ out.store = Store)

\* a contributor of a project that is past its deadline and not settled is
\* refused a refund
C5_Witness ==
    \E p \in ProjectIds, c \in Contributors :
        /\ Stored(p)
        /\ projects[p].status = Active
        /\ now > projects[p].deadline
        /\ contribution[p][c] > 0
        /\ projects[p].total_raised > 0
        /\ refund_contributor(Store, p, c, TRUE).res = "ProjectNotActive"

\* C6: a successful mark_project_failed call is made with now > deadline,
\* sets the status to Completed exactly when total_raised >= funding_goal at
\* the time of the call and to Failed otherwise, and in both outcomes sets
\* the ProjectFailureProcessed marker.
C6_SettleDecision ==
    \A p \in ProjectIds :
        LET out == mark_project_failed(Store, now, p) IN
        out.res = Ok =>
            /\ Stored(p)
            /\ now > projects[p].deadline
            /\ out.store.projects[p].status \in {Completed, Failed}
            /\ out.store.projects[p].status = Completed
                   <=> projects[p].total_raised >= projects[p].funding_goal
            /\ p \in out.store.failure_processed

\* one project was settled Completed having raised exactly its goal, another
\* was settled Failed
C6_Witness ==
    \E p \in ProjectIds, q \in ProjectIds :
        /\ settles_ok[p] = 1 /\ settles_ok[q] = 1
        /\ projects[p].status = Completed
        /\ projects[p].total_raised = projects[p].funding_goal
        /\ projects[q].status = Failed
        /\ projects[q].total_raised < projects[q].funding_goal
        /\ {p, q} \subseteq failure_processed

\* C7: a successful refund_contributor(project_id, contributor) moves exactly
\* the recorded cumulative contribution of the pair, in the project's token,
\* from the escrow account to that contributor, returns that amount, and
\* changes no other balance.
C7_RefundExactAmount ==
    \A p \in ProjectIds, c \in Contributors, token_ok \in BOOLEAN :
        LET out == refund_contributor(Store, p, c, token_ok) IN
        out.res = Ok =>
            LET amount == contribution[p][c]
                token == projects[p].token
            IN /\ amount > 0
               /\ out.val = amount
               /\ out.store.balance =
                      [balance EXCEPT ![token][Escrow] = @ - amount,
                                      ![token][c] = @ + amount]

\* a contributor who contributed twice to a project with two contributors
\* got the whole cumulative amount back
C7_Witness ==
    \E p \in ProjectIds, c \in Contributors, d \in Contributors :
        /\ refunds_ok[p][c] = 1
        /\ c # d
        /\ contribution[p][c] = 2 * MIN_CONTRIBUTION
        /\ contribution[p][d] = MIN_CONTRIBUTION
        /\ refunds_ok[p][d] = 0
        /\ projects[p].total_raised = 3 * MIN_CONTRIBUTION
        /\ balance[projects[p].token][c] = InitialBalance(projects[p].token, c)

\* the error codes the entry points return
ReturnedErrors ==
    {"InvalidFundingGoal", "InvalidDeadline", "ContributionTooLow",
     "ProjectNotFound", "ProjectNotActive", "DeadlinePassed", "InvalidInput",
     "InvalidProjectStatus"}

\* C8: whenever create_project, contribute, mark_project_failed or
\* refund_contributor returns an error, the persisted state (counter,
\* projects, contribution amounts, both kinds of marker) and all token
\* balances after the call are those before the call.
C8_ErrorsLeaveState ==
    /\ \A creator \in Creators, goal \in Goals, deadline \in Deadlines(now),
          token \in Tokens :
           LET out == create_project(Store, now, creator, goal, deadline, token) IN
           out.res \in ReturnedErrors => out.store = Store
    /\ \A p \in ProjectIds, c \in Contributors :
           /\ \A amount \in Amounts, auth \in BOOLEAN, token_ok \in BOOLEAN,
                 overflow_checks \in BOOLEAN :
                  LET out == contribute(Store, now, p, c, amount, auth, token_ok,
                                        overflow_checks) IN
                  out.res \in ReturnedErrors => out.store = Store
           /\ \A token_ok \in BOOLEAN :
                  LET out == refund_contributor(Store, p, c, token_ok) IN
                  out.res \in ReturnedErrors => out.store = Store
    /\ \A p \in ProjectIds :
           LET out == mark_project_failed(Store, now, p) IN
           out.res \in ReturnedErrors => out.store = Store

\* a state with deposits, a settled project and a refunded contributor in
\* which each of the four entry points returns an error
C8_Witness ==
    \E p \in ProjectIds, c \in Contributors :
        /\ next_project_id > 0
        /\ <<p, c>> \in refund_processed
        /\ create_project(Store, now, "creator", MIN_FUNDING_GOAL, now, "tA").res
               = "InvalidDeadline"
        /\ contribute(Store, now, p, c, MIN_CONTRIBUTION, TRUE, TRUE, TRUE).res
               = "ProjectNotActive"
        /\ mark_project_failed(Store, now, p).res = "InvalidProjectStatus"
        /\ refund_contributor(Store, p, c, TRUE).res = "InvalidInput"

\* C9: when the transfer from the contributor to the escrow fails, contribute
\* fails and the store is the one before the call: total_raised, written
\* before the transfer, and the contributor's cumulative contribution are
\* unchanged.  Whatever the outcome of a contribute call, total_raised and
\* the contribution record of the pair have grown by the same amount.
C9_TransferFailureReverts ==
    \A p \in ProjectIds, c \in Contributors, amount \in Amounts,
       auth \in BOOLEAN, token_ok \in BOOLEAN, overflow_checks \in BOOLEAN :
        LET out == contribute(Store, now, p, c, amount, auth, token_ok,
                              overflow_checks) IN
        /\ out.res = "TransferError" =>
               /\ out.store = Store
               /\ out.store.projects[p].total_raised = projects[p].total_raised
               /\ out.store.contribution[p][c] = contribution[p][c]
        /\ Stored(p) =>
               out.store.projects[p].total_raised - projects[p].total_raised
                   = out.store.contribution[p][c] - contribution[p][c]

\* a contributor who spent the whole balance on an open project calls
\* contribute again and the transfer fails
C9_Witness ==
    \E p \in ProjectIds, c \in Contributors :
        /\ Stored(p)
        /\ contribution[p][c] > 0
        /\ balance[projects[p].token][c] = 0
        /\ contribute(Store, now, p, c, MIN_CONTRIBUTION, TRUE, TRUE, TRUE).res
               = "TransferError"

\* C10: when the transfer from the escrow to the contributor fails,
\* refund_contributor fails with the RefundProcessed marker of the pair
\* still absent and the store unchanged; a following refund_contributor call
\* for the pair is not refused, and when its transfer succeeds it pays the
\* full recorded amount and sets the marker.
C10_RefundRetry ==
    \A p \in ProjectIds, c \in Contributors, token_ok \in BOOLEAN :
        LET failed == refund_contributor(Store, p, c, token_ok) IN
        failed.res = "TransferError" =>
            /\ failed.store = Store
            /\ <<p, c>> \notin failed.store.refund_processed
            /\ \A retry_ok \in BOOLEAN :
                   LET retry == refund_contributor(failed.store, p, c, retry_ok)
                       funded == balance[projects[p].token][Escrow] >= contribution[p][c]
                   IN /\ retry.res \in {Ok, "TransferError"}
                      /\ (retry_ok /\ funded) =>
                             /\ retry.res = Ok
                             /\ retry.val = contribution[p][c]
                             /\ <<p, c>> \in retry.store.refund_processed

\* a refund whose transfer the token refuses, and whose retry is paid
C10_Witness ==
    \E p \in ProjectIds, c \in Contributors :
        /\ projects[p].status = Failed
        /\ contribution[p][c] > 0
        /\ refund_contributor(Store, p, c, FALSE).res = "TransferError"
        /\ refund_contributor(Store, p, c, TRUE).res = Ok

(***************************************************************************)
(* Project creation: rejected calls, the sequence counter, the deadline    *)
(* window.                                                                 *)
(***************************************************************************)

\* C11: a create_project call rejected with InvalidFundingGoal or
\* InvalidDeadline leaves NextProjectId unchanged and stores no project
\* record, so that the next successful creation receives the id the rejected
\* call would have received.
C11_RejectedCreationKeepsId ==
    \A creator \in Creators, goal \in Goals, deadline \in Deadlines(now), token \in Tokens :
        LET rejected == create_project(Store, now, creator, goal, deadline, token) IN
        rejected.res \in {"InvalidFundingGoal", "InvalidDeadline"} =>
            /\ rejected.store.next_project_id = next_project_id
            /\ rejected.store.projects = projects
            /\ \A creator2 \in Creators, goal2 \in Goals,
                  deadline2 \in Deadlines(now), token2 \in Tokens :
                   LET following == create_project(rejected.store, now, creator2,
                                                   goal2, deadline2, token2)
                   IN following.res = Ok => following.val = next_project_id

\* after one creation, a call is rejected for its goal, another for a deadline
\* that is in the future but too near, and the creation that follows gets id 1
C11_Witness ==
    /\ creations = 1
    /\ next_project_id = 1
    /\ Stored(0)
    /\ \E creator \in Creators, token \in Tokens :
           /\ create_project(Store, now, creator, MIN_FUNDING_GOAL - 1,
                             now + MIN_PROJECT_DURATION, token).res = "InvalidFundingGoal"
           /\ LET rejected == create_project(Store, now, creator, MIN_FUNDING_GOAL,
                                             now + MIN_PROJECT_DURATION - 1, token)
                  following == create_project(rejected.store, now, creator, MIN_FUNDING_GOAL,
                                              now + MIN_PROJECT_DURATION, token)
              IN /\ rejected.res = "InvalidDeadline"
                 /\ following.res = Ok
                 /\ following.val = 1

\* C12: over any sequence of initialize and create_project calls, in any
\* order, NextProjectId never decreases and increases by exactly one on each
\* successful create_project, and no project id is issued twice:
\* create_project never returns an id for which a project record already
\* exists and never overwrites a stored project.
C12_CounterNeverReused ==
    [][ /\ next_project_id' >= next_project_id
        /\ creations' # creations =>
               /\ next_project_id' = next_project_id + 1
               /\ ~Stored(next_project_id)
               /\ \A p \in ProjectIds : Stored(p) => projects'[p] = projects[p]
      ]_vars

\* C13: create_project succeeds if and only if funding_goal >=
\* MIN_FUNDING_GOAL, MIN_PROJECT_DURATION <= deadline - now <=
\* MAX_PROJECT_DURATION and deadline > now; it returns InvalidFundingGoal when
\* the goal is too low (whatever the deadline) and InvalidDeadline when the
\* goal is valid but the deadline is in the past, too near or too far; on
\* success the stored project has status Active, total_raised 0 and
\* created_at = now (the record is read for the ids the model stores).
C13_CreationPreconditions ==
    \A creator \in Creators, goal \in Goals, deadline \in Deadlines(now), token \in Tokens :
        LET out == create_project(Store, now, creator, goal, deadline, token)
            goal_ok == goal >= MIN_FUNDING_GOAL
            deadline_ok == /\ MIN_PROJECT_DURATION <= deadline - now
                           /\ deadline - now <= MAX_PROJECT_DURATION
                           /\ deadline > now
        IN /\ out.res = Ok <=> (goal_ok /\ deadline_ok)
           /\ ~goal_ok => out.res = "InvalidFundingGoal"
           /\ (goal_ok /\ ~deadline_ok) => out.res = "InvalidDeadline"
           /\ (out.res = Ok /\ out.val \in ProjectIds) =>
                  LET project == out.store.projects[out.val] IN
                  /\ project.status = Active
                  /\ project.total_raised = 0
                  /\ project.created_at = now
                  /\ project.funding_goal = goal
                  /\ project.deadline = deadline

\* a project created at time 1, in a state where a further call is refused
\* for its goal, for a past deadline, for a deadline that is too near and for
\* one that is too far
C13_Witness ==
    /\ now = 1
    /\ \E p \in ProjectIds :
           /\ Stored(p)
           /\ projects[p].created_at = 1
           /\ projects[p].status = Active
           /\ projects[p].total_raised = 0
    /\ \E creator \in Creators, token \in Tokens :
           /\ create_project(Store, now, creator, MIN_FUNDING_GOAL - 1,
                             now - 1, token).res = "InvalidFundingGoal"
           /\ create_project(Store, now, creator, MIN_FUNDING_GOAL,
                             now - 1, token).res = "InvalidDeadline"
           /\ create_project(Store, now, creator, MIN_FUNDING_GOAL,
                             now + MIN_PROJECT_DURATION - 1, token).res = "InvalidDeadline"
           /\ create_project(Store, now, creator, MIN_FUNDING_GOAL,
                             now + MAX_PROJECT_DURATION + 1, token).res = "InvalidDeadline"
           /\ create_project(Store, now, creator, MIN_FUNDING_GOAL,
                             now + MAX_PROJECT_DURATION, token).res = Ok

\* C14: a create_project call made without the authorization of the creator
\* fails and creates no project: no id is consumed and no project record is
\* stored.  creator_auth is whether the creator authorized the call;
\* create_project never asks for it (there is no require_auth in lines
\* 71-132), so its outcome is the same for both values.
C14_UnauthorizedCreationFails ==
    \A creator_auth \in BOOLEAN :
        \A creator \in Creators, goal \in Goals, deadline \in Deadlines(now), token \in Tokens :
            LET out == create_project(Store, now, creator, goal, deadline, token) IN
            ~creator_auth =>
                /\ out.res # Ok
                /\ out.store.next_project_id = next_project_id
                /\ out.store.projects = projects

(***************************************************************************)
(* Contributions: accumulation and arithmetic.                             *)
(***************************************************************************)

\* C15: for every (project_id, contributor), get_user_contribution returns
\* the sum of the amounts of all successful contribute calls made so far for
\* the pair (0 if there were none); the value is always >= 0 and never
\* decreases over the execution; there is no cap on the number of
\* contributions of a contributor or on total_raised relative to
\* funding_goal: a contribute that meets all other preconditions (and whose
\* sums stay in the i128 range) succeeds and adds its amount, whatever the
\* pair has contributed before and even when total_raised already exceeds
\* the goal.
C15_ContributionAccumulates ==
    /\ [](\A p \in ProjectIds, c \in Contributors :
            /\ get_user_contribution(Store, p, c) = contributed[p][c]
            /\ get_user_contribution(Store, p, c) >= 0
            /\ \A amount \in Amounts, overflow_checks \in BOOLEAN :
                   LET out == contribute(Store, now, p, c, amount, TRUE, TRUE,
                                         overflow_checks)
                   IN ( /\ amount >= MIN_CONTRIBUTION
                        /\ Stored(p)
                        /\ projects[p].status = Active
                        /\ now < projects[p].deadline
                        /\ balance[projects[p].token][c] >= amount
                        /\ projects[p].total_raised + amount <= I128_MAX
                        /\ contribution[p][c] + amount <= I128_MAX ) =>
                          /\ out.res = Ok
                          /\ get_user_contribution(out.store, p, c)
                                 = get_user_contribution(Store, p, c) + amount)
    /\ [][\A p \in ProjectIds, c \in Contributors :
            get_user_contribution(Store, p, c)' >= get_user_contribution(Store, p, c)]_vars

\* a project whose total_raised already exceeds its goal, one contributor
\* has contributed several times, another never, and a further contribution
\* is accepted
C15_Witness ==
    \E p \in ProjectIds, c \in Contributors, d \in Contributors :
        /\ Stored(p)
        /\ projects[p].total_raised > projects[p].funding_goal
        /\ contributed[p][c] >= 3
        /\ get_user_contribution(Store, p, c) = contributed[p][c]
        /\ contributed[p][d] = 0
        /\ get_user_contribution(Store, p, d) = 0
        /\ contribute(Store, now, p, c, MIN_CONTRIBUTION, TRUE, TRUE, TRUE).res = Ok

(***************************************************************************)
(* Refunds under re-entry.                                                 *)
(***************************************************************************)

C17_CheckedAddition ==
    \A p \in ProjectIds, c \in Contributors, amount \in Amounts,
       auth \in BOOLEAN, token_ok \in BOOLEAN, overflow_checks \in BOOLEAN :
        LET out == contribute(Store, now, p, c, amount, auth, token_ok,
                              overflow_checks)
        IN Stored(p) =>
               /\ ( \/ projects[p].total_raised + amount > I128_MAX
                    \/ contribution[p][c] + amount > I128_MAX ) =>
                        /\ out.res # Ok
                        /\ out.store = Store
               /\ out.res = Ok =>
                      /\ out.store.projects[p].total_raised
                             = projects[p].total_raised + amount
                      /\ out.store.contribution[p][c] = contribution[p][c] + amount

(***************************************************************************)
(* The ends of the deadline window and of the contribution period.         *)
(***************************************************************************)

\* C18 (as stated): the accepted deadline window of create_project is
\* half-open, [MIN_PROJECT_DURATION, MAX_PROJECT_DURATION): a deadline with
\* deadline - now equal to MIN_PROJECT_DURATION is accepted and a deadline
\* with deadline - now equal to MAX_PROJECT_DURATION is rejected with
\* InvalidDeadline.
C18_HalfOpenWindow ==
    \A creator \in Creators, token \in Tokens :
        /\ create_project(Store, now, creator, MIN_FUNDING_GOAL,
                          now + MIN_PROJECT_DURATION, token).res = Ok
        /\ create_project(Store, now, creator, MIN_FUNDING_GOAL,
                          now + MAX_PROJECT_DURATION, token).res = "InvalidDeadline"

\* C18 (amended): the accepted deadline window of create_project is closed,
\* [MIN_PROJECT_DURATION, MAX_PROJECT_DURATION]: a deadline with deadline -
\* now equal to MIN_PROJECT_DURATION is accepted and so is one with deadline
\* - now equal to MAX_PROJECT_DURATION; one time unit less than the minimum
\* or more than the maximum is rejected with InvalidDeadline.
C18_ClosedWindow ==
    \A creator \in Creators, token \in Tokens :
        /\ create_project(Store, now, creator, MIN_FUNDING_GOAL,
                          now + MIN_PROJECT_DURATION, token).res = Ok
        /\ create_project(Store, now, creator, MIN_FUNDING_GOAL,
                          now + MAX_PROJECT_DURATION, token).res = Ok
        /\ create_project(Store, now, creator, MIN_FUNDING_GOAL,
                          now + MIN_PROJECT_DURATION - 1, token).res = "InvalidDeadline"
        /\ create_project(Store, now, creator, MIN_FUNDING_GOAL,
                          now + MAX_PROJECT_DURATION + 1, token).res = "InvalidDeadline"

\* two stored projects, one created with the minimum duration and one with
\* the maximum duration
C18_Witness ==
    \E p \in ProjectIds, q \in ProjectIds :
        /\ Stored(p)
        /\ projects[p].deadline - projects[p].created_at = MIN_PROJECT_DURATION
        /\ Stored(q)
        /\ projects[q].deadline - projects[q].created_at = MAX_PROJECT_DURATION

\* C19: at the instant now = deadline of an Active project both contribute
\* and mark_project_failed are rejected (contribute with DeadlinePassed,
\* mark_project_failed with InvalidInput) and leave the state unchanged;
\* contributions are possible only strictly before the deadline and
\* settlement only strictly after it.
C19_DeadlineInstant ==
    \A p \in ProjectIds :
        LET settle == mark_project_failed(Store, now, p) IN
        /\ settle.res = Ok => now > projects[p].deadline
        /\ \A c \in Contributors, amount \in Amounts, auth \in BOOLEAN,
              token_ok \in BOOLEAN, overflow_checks \in BOOLEAN :
               LET out == contribute(Store, now, p, c, amount, auth, token_ok,
                                     overflow_checks)
               IN /\ out.res = Ok => now < projects[p].deadline
                  /\ ( /\ Stored(p)
                       /\ projects[p].status = Active
                       /\ now = projects[p].deadline ) =>
                         /\ out.res # Ok
                         /\ out.store = Store
                         /\ (amount >= MIN_CONTRIBUTION /\ auth) =>
                                out.res = "DeadlinePassed"
                         /\ settle.res = "InvalidInput"
                         /\ settle.store = Store

\* an Active project that took a contribution before its deadline, at the
\* instant of its deadline: a contribution and a settlement are both refused
C19_Witness ==
    \E p \in ProjectIds, c \in Contributors :
        /\ Stored(p)
        /\ projects[p].status = Active
        /\ now = projects[p].deadline
        /\ contributed[p][c] > 0
        /\ balance[projects[p].token][c] >= MIN_CONTRIBUTION
        /\ contribute(Store, now, p, c, MIN_CONTRIBUTION, TRUE, TRUE, TRUE).res
               = "DeadlinePassed"
        /\ mark_project_failed(Store, now, p).res = "InvalidInput"

(***************************************************************************)
(* The frame of a settlement.                                              *)
(***************************************************************************)

\* C20: mark_project_failed never moves tokens: in both outcomes, Completed
\* and Failed, it changes only the status of the project and the
\* ProjectFailureProcessed marker, and leaves every token balance,
\* total_raised, every contribution amount, every refund marker and the
\* sequence counter unchanged.
C20_SettleFrame ==
    \A p \in ProjectIds :
        LET out == mark_project_failed(Store, now, p) IN
        /\ out.store.balance = balance
        /\ out.store.contribution = contribution
        /\ out.store.refund_processed = refund_processed
        /\ out.store.next_project_id = next_project_id
        /\ out.store.admin = admin
        /\ \A q \in ProjectIds \ {p} : out.store.projects[q] = projects[q]
        /\ out.res # Ok => out.store = Store
        /\ out.res = Ok =>
               /\ out.store.projects[p].status \in {Completed, Failed}
               /\ out.store.projects[p]
                      = [projects[p] EXCEPT !.status = out.store.projects[p].status]
               /\ out.store.projects[p].total_raised = projects[p].total_raised
               /\ out.store.failure_processed = failure_processed \cup {p}

\* a project settled as Completed whose funds are still in escrow, next to a
\* project with contributions that a settlement now marks Failed
C20_Witness ==
    \E p \in ProjectIds, q \in ProjectIds :
        /\ settles_ok[p] = 1
        /\ projects[p].status = Completed
        /\ balance[projects[p].token][Escrow] >= projects[p].total_raised
        /\ projects[p].total_raised > 0
        /\ Stored(q)
        /\ projects[q].total_raised > 0
        /\ LET out == mark_project_failed(Store, now, q) IN
           /\ out.res = Ok
           /\ out.store.projects[q].status = Failed

(***************************************************************************)
(* Settlement, escrow and refunds over the life of a project.              *)
(***************************************************************************)

\* C21: in every reachable state, for every project, the
\* ProjectFailureProcessed marker is present if and only if the status of
\* the project is Completed or Failed: the status is Active exactly when
\* settlement has not run.
C21_MarkerIffSettled ==
    \A p \in ProjectIds :
        /\ is_failure_processed(Store, p) =>
               (Stored(p) /\ projects[p].status \in {Completed, Failed})
        /\ Stored(p) =>
               (projects[p].status \in {Completed, Failed} <=> is_failure_processed(Store, p))
        /\ Stored(p) =>
               (projects[p].status = Active <=> settles_ok[p] = 0)

\* C22: with a clock that never goes back, once a project has been settled
\* (its ProjectFailureProcessed marker is set) no later operation changes
\* its total_raised or the recorded cumulative contribution of any
\* contributor for it, and every contribute call on the project is rejected:
\* the amounts that decided the outcome are the amounts refunds pay out.
C22_SettledAmountsFrozen ==
    /\ [](\A p \in ProjectIds :
            is_failure_processed(Store, p) =>
                \A c \in Contributors, amount \in Amounts, auth \in BOOLEAN,
                   token_ok \in BOOLEAN, overflow_checks \in BOOLEAN :
                    LET out == contribute(Store, now, p, c, amount, auth, token_ok,
                                          overflow_checks)
                    IN /\ out.res # Ok
                       /\ out.store = Store)
    /\ [][\A p \in ProjectIds :
            is_failure_processed(Store, p) =>
                /\ projects'[p].total_raised = projects[p].total_raised
                /\ \A c \in Contributors :
                       get_user_contribution(Store, p, c)'
                           = get_user_contribution(Store, p, c)]_vars

\* the sum of f over the finite set S
RECURSIVE SumOver(_, _)
SumOver(f, S) ==
    IF S = {} THEN 0
    ELSE LET x == CHOOSE y \in S : TRUE
         IN f[x] + SumOver(f, S \ {x})

\* total_raised summed over the stored projects that use the token
RaisedIn(token) ==
    SumOver([p \in ProjectIds |-> projects[p].total_raised],
            {p \in ProjectIds : Stored(p) /\ projects[p].token = token})

\* the recorded contributions of the pairs of a project whose RefundProcessed
\* marker is set
RefundedOf(project_id) ==
    SumOver([c \in Contributors |-> contribution[project_id][c]],
            {c \in Contributors : is_refunded(Store, project_id, c)})

\* RefundedOf summed over the stored projects that use the token
RefundedIn(token) ==
    SumOver([p \in ProjectIds |-> RefundedOf(p)],
            {p \in ProjectIds : Stored(p) /\ projects[p].token = token})

\* C23: escrow is conserved: in every reachable state, for each token, the
\* balance of the escrow account equals the sum of total_raised over the
\* projects using the token minus the sum of the recorded contributions of
\* the pairs whose RefundProcessed marker is set; hence the total refunded
\* for a project never exceeds its total_raised, and a refund is never
\* blocked by an insufficient escrow balance.
C23_EscrowConserved ==
    /\ \A token \in Tokens :
           balance[token][Escrow] = RaisedIn(token) - RefundedIn(token)
    /\ \A p \in ProjectIds :
           Stored(p) => RefundedOf(p) <= projects[p].total_raised
    /\ \A p \in ProjectIds, c \in Contributors :
           LET out == refund_contributor(Store, p, c, TRUE) IN
           out.res # "TransferError"

(***************************************************************************)
(* Progress.  The clock of the model stops at MaxTime, so the projects of  *)
(* this specification are created with a deadline the clock can pass.      *)
(* Calls are permissionless: whenever a settlement or a refund can         *)
(* succeed, someone eventually makes the call, and the clock keeps         *)
(* advancing up to MaxTime.                                                *)
(***************************************************************************)
CreateProjectBeforeEnd ==
    \E creator \in Creators, goal \in Goals,
       deadline \in {d \in Deadlines(now) : d < MaxTime}, token \in Tokens :
        LET out == create_project(Store, now, creator, goal, deadline, token) IN
        /\ creations < MaxProjects
        /\ Commit(out)
        /\ creations' = IF out.res = Ok THEN creations + 1 ELSE creations
        /\ UNCHANGED <<now, refunds_ok, settles_ok, contributed>>

NextLive ==
    \/ Initialize
    \/ CreateProjectBeforeEnd
    \/ Contribute
    \/ MarkProjectFailed
    \/ RefundContributor
    \/ AdvanceTime

SpecLive ==
    /\ Init
    /\ [][NextLive]_vars
    /\ WF_vars(AdvanceTime)
    /\ WF_vars(MarkProjectFailed)
    /\ WF_vars(RefundContributor)

\* C24: with a clock that passes every deadline, weak fairness of the
\* permissionless settle and refund calls and transfers that eventually
\* succeed, every created project eventually reaches Completed or Failed,
\* and every contributor with a positive recorded contribution to a Failed
\* project eventually has the RefundProcessed marker set.
C24_EventuallySettledAndRefunded ==
    /\ \A p \in ProjectIds :
           Stored(p) ~> (Stored(p) /\ projects[p].status \in {Completed, Failed})
    /\ \A p \in ProjectIds, c \in Contributors :
           (Stored(p) /\ projects[p].status = Failed /\ contribution[p][c] > 0)
               ~> is_refunded(Store, p, c)

\* C25: a successful refund_contributor changes only the RefundProcessed
\* marker of its (project_id, contributor) pair and the two token balances,
\* of the escrow and of the contributor: total_raised and the status of the
\* project, the recorded cumulative contribution of the refunded contributor
\* (get_user_contribution still returns the amount of before the refund) and
\* the record and the marker of every other contributor are left unchanged.
C25_RefundFrame ==
    \A p \in ProjectIds, c \in Contributors, token_ok \in BOOLEAN :
        LET out == refund_contributor(Store, p, c, token_ok)
            token == projects[p].token
        IN out.res = Ok =>
               /\ out.store.projects = projects
               /\ out.store.contribution = contribution
               /\ get_user_contribution(out.store, p, c) = get_user_contribution(Store, p, c)
               /\ out.store.refund_processed = refund_processed \cup {<<p, c>>}
               /\ \A q \in ProjectIds, d \in Contributors :
                      <<q, d>> # <<p, c>> =>
                          is_refunded(out.store, q, d) = is_refunded(Store, q, d)
               /\ out.store.failure_processed = failure_processed
               /\ out.store.next_project_id = next_project_id
               /\ out.store.admin = admin
               /\ \A k \in Tokens, a \in Accounts :
                      (k # token \/ a \notin {Escrow, c}) =>
                          out.store.balance[k][a] = balance[k][a]
               /\ out.store.balance[token][c] = balance[token][c] + out.val
               /\ out.store.balance[token][Escrow] = balance[token][Escrow] - out.val

\* a refunded contributor whose recorded contribution is still what it was,
\* next to a second contributor of the project whose refund now succeeds
C25_Witness ==
    \E p \in ProjectIds, c \in Contributors, d \in Contributors :
        /\ c # d
        /\ refunds_ok[p][c] = 1
        /\ is_refunded(Store, p, c)
        /\ get_user_contribution(Store, p, c) = contributed[p][c]
        /\ contributed[p][c] > 0
        /\ projects[p].status = Failed
        /\ projects[p].total_raised = contributed[p][c] + contributed[p][d]
        /\ contributed[p][d] > 0
        /\ refund_contributor(Store, p, d, TRUE).res = Ok

============================================================================
